---- MODULE Spec2Model ----
(***************************************************************************)
(* semantAH index builder (tools/semantah/build_index.py).                 *)
(*                                                                         *)
(* A run of main() is a process that walks through ensure_dirs,            *)
(* write_embeddings (read chunks, embed, merge, columnar file or hint,     *)
(* manifest) and write_report.  The namespace's artifacts directory        *)
(* (.gewebe) is the shared state: embeddings.parquet, the MISSING_PYARROW  *)
(* hint, chunks.json and reports/index_report.md.                          *)
(*                                                                         *)
(* The environment is modelled where the code has a handler for it: a      *)
(* chunk file that cannot be read (line 138), a provider call that fails   *)
(* or answers with arbitrary JSON (lines 41-68), pyarrow missing           *)
(* (line 166) and a stale columnar file that cannot be unlinked            *)
(* (lines 172-174).  Other I/O failures have no handler and are not        *)
(* injected.                                                               *)
(***************************************************************************)
EXTENDS Naturals, Sequences, FiniteSets

VARIABLES
    dirs,           \* directories that exist: subset of {"gewebe", "reports"}
    parquet_path,   \* .gewebe/embeddings.parquet
    hint_file,      \* .gewebe/embeddings.parquet.MISSING_PYARROW.txt exists
    manifest_path,  \* .gewebe/chunks.json
    report_path,    \* .gewebe/reports/index_report.md
    run,            \* per process: the locals of main() and write_embeddings()
    before,         \* per process: the four files as the run found them (history)
    overlapped      \* history: some run started while another was in progress

vars == <<dirs, parquet_path, hint_file, manifest_path, report_path, run, before, overlapped>>

\* ------------------------------------------------------------------ bounds

\* --chunks takes at most this many paths in the model
MaxChunks == 2

Procs == {1, 2}

\* ------------------------------------------------------- chunk files on disk

Paths == {"notes/a.md", "docs/b.md", "gone/c.md"}

\* Path.stem
stem(p) ==
    CASE p = "notes/a.md" -> "a"
      [] p = "docs/b.md"  -> "b"
      [] OTHER            -> "c"

\* Path.read_text(encoding="utf-8"): the content, or an OSError / UnicodeDecodeError
read_text(p) ==
    CASE p = "notes/a.md" -> [ok |-> TRUE,  content |-> "hello"]
      [] p = "docs/b.md"  -> [ok |-> TRUE,  content |-> "world"]
      [] OTHER            -> [ok |-> FALSE, content |-> ""]

\* gewebe.parent.name
namespace == "default"

RECURSIVE SeqsUpTo(_, _)
SeqsUpTo(S, n) ==
    IF n = 0 THEN {<<>>}
    ELSE LET shorter == SeqsUpTo(S, n - 1)
         IN  shorter \cup {Append(s, x) : s \in {t \in shorter : Len(t) = n - 1}, x \in S}

\* args.chunks as main() turns it into chunk_paths (None and [] both give []);
\* the model names each path at most once in a run
ChunkLists ==
    {s \in SeqsUpTo(Paths, MaxChunks) : \A i, j \in 1..Len(s) : i # j => s[i] # s[j]}

\* the chunk lists of two concurrent runs: different chunk sets
ConcChunkLists(p) ==
    IF p = 1 THEN {<<"notes/a.md">>, <<"gone/c.md", "notes/a.md">>}
    ELSE {<<"docs/b.md">>, <<>>}

\* ------------------------------------------------------------------- files

NoFile == [exists |-> FALSE, data |-> <<>>]
File(d) == [exists |-> TRUE, data |-> d]

NoReport == [exists |-> FALSE, passed |-> 0, read |-> 0, embedded |-> 0, parquet_line |-> "none"]

Artifacts == [parquet |-> parquet_path, hint |-> hint_file,
              manifest |-> manifest_path, report |-> report_path]

\* ---------------------------------------------------------- chunk reading

\* the loop body of write_embeddings step 1 for one path
chunk_record(p) ==
    [chunk_id |-> stem(p), source |-> p, namespace |-> namespace,
     text |-> read_text(p).content]

RECURSIVE read_chunks_until_error(_)
\* a plausible slip: the loop ends at the first path that cannot be read
read_chunks_until_error(chunks) ==
    IF chunks = <<>> THEN <<>>
    ELSE LET p == Head(chunks)
         IN  IF read_text(p).ok
             THEN <<chunk_record(p)>> \o read_chunks_until_error(Tail(chunks))
             ELSE <<>>

RECURSIVE read_chunks(_)
\* write_embeddings step 1: chunk_meta, one record per path that could be read
read_chunks(chunks) ==
    IF chunks = <<>> THEN <<>>
    ELSE LET p == Head(chunks)
         IN  IF read_text(p).ok
             THEN <<chunk_record(p)>> \o read_chunks(Tail(chunks))
             ELSE read_chunks(Tail(chunks))

\* texts is appended to in step with chunk_meta
texts_of(chunk_meta) == [i \in 1..Len(chunk_meta) |-> chunk_meta[i].text]

\* --------------------------------------------------------------- provider

\* the vectors a provider (or any embedder) may hand back
VecBases == {0, 10}
VectorLists(m) == {[i \in 1..k |-> <<b + i>>] : k \in 0..m, b \in VecBases}

Absent == [tag |-> "missing", items |-> <<>>]
NoBody == [type |-> "none", embeddings |-> Absent]

\* what json.loads may yield: a non-object, or an object whose "embeddings" is
\* missing, not a list, or a list of any length
JsonBodies(n) ==
    {[type |-> "array", embeddings |-> Absent]}
    \cup {[type |-> "object", embeddings |-> e] :
            e \in {Absent, [tag |-> "string", items |-> <<>>]}
                  \cup {[tag |-> "list", items |-> l] : l \in VectorLists(n + 1)}}

\* what urlopen / read / decode may do for a request with n texts
Responses(n) ==
    {[kind |-> k, body |-> NoBody] : k \in {"http_error", "url_error", "timeout", "bad_json"}}
    \cup {[kind |-> "json", body |-> b] : b \in JsonBodies(n)}

\* the exception raised inside the try block, "none" when it returns
exception_of(resp, n) ==
    CASE resp.kind = "http_error" -> "HTTPError"
      [] resp.kind = "url_error"  -> "URLError"
      [] resp.kind = "timeout"    -> "TimeoutError"
      [] resp.kind = "bad_json"   -> "JSONDecodeError"
      [] resp.body.type # "object" -> "AttributeError"      \* result.get on a non-dict
      [] resp.body.embeddings.tag # "list" -> "ValueError"   \* not isinstance(embeddings, list)
      [] Len(resp.body.embeddings.items) # n -> "ValueError" \* count mismatch
      [] OTHER -> "none"

\* the except clause of embed
Caught == {"HTTPError", "URLError", "TimeoutError", "JSONDecodeError", "ValueError"}

Returned(v, sent) == [raised |-> "none", value |-> v, requests |-> sent]
Raised(e, sent) == [raised |-> e, value |-> <<>>, requests |-> sent]

\* a plausible slip: no short-circuit for an empty input
embed_without_shortcut(texts, allow_empty, resp) ==
    LET exc == exception_of(resp, Len(texts))
    IN  IF exc = "none" THEN Returned(resp.body.embeddings.items, 1)
        ELSE IF exc \in Caught
             THEN IF allow_empty THEN Returned([i \in 1..Len(texts) |-> <<>>], 1)
                  ELSE Raised("RuntimeError", 1)
             ELSE Raised(exc, 1)

\* a plausible slip: a failed call is tried a second time
embed_with_retry(texts, allow_empty, resp) ==
    IF texts = <<>> THEN Returned(<<>>, 0)
    ELSE LET exc == exception_of(resp, Len(texts))
         IN  IF exc = "none" THEN Returned(resp.body.embeddings.items, 1)
             ELSE IF exc \in Caught
                  THEN IF allow_empty THEN Returned([i \in 1..Len(texts) |-> <<>>], 2)
                       ELSE Raised("RuntimeError", 2)
                  ELSE Raised(exc, 1)

\* OllamaEmbedder.embed
embed(texts, allow_empty, resp) ==
    IF texts = <<>> THEN Returned(<<>>, 0)
    ELSE LET exc == exception_of(resp, Len(texts))
         IN  IF exc = "none" THEN Returned(resp.body.embeddings.items, 1)
             ELSE IF exc \in Caught
                  THEN IF allow_empty THEN Returned([i \in 1..Len(texts) |-> <<>>], 1)
                       ELSE Raised("RuntimeError", 1)
                  ELSE Raised(exc, 1)

\* ------------------------------------------------------------------ merge

Min(a, b) == IF a < b THEN a ELSE b

\* zip(chunk_meta, embeddings, strict=False) with {**meta, "embedding": emb}
zip_records(chunk_meta, embeddings) ==
    [i \in 1..Min(Len(chunk_meta), Len(embeddings)) |->
        [chunk_id |-> chunk_meta[i].chunk_id, source |-> chunk_meta[i].source,
         namespace |-> chunk_meta[i].namespace, text |-> chunk_meta[i].text,
         embedding |-> embeddings[i]]]

\* a plausible slip: the length check dropped, zip truncates silently
merge_unchecked(chunk_meta, embeddings) ==
    [raised |-> "none", message |-> <<>>,
     manifest_data |-> zip_records(chunk_meta, embeddings)]

\* write_embeddings step 3
merge(chunk_meta, embeddings) ==
    IF Len(chunk_meta) # Len(embeddings)
    THEN [raised |-> "RuntimeError",
          message |-> <<"Chunks", Len(chunk_meta), "Embeddings", Len(embeddings)>>,
          manifest_data |-> <<>>]
    ELSE [raised |-> "none", message |-> <<>>,
          manifest_data |-> zip_records(chunk_meta, embeddings)]

\* a plausible slip: the manifest opened in append mode
appended_manifest(old, manifest_data) == File(old.data \o manifest_data)

\* manifest_path.write_text(json.dumps(manifest_data, ...))
written_manifest(old, manifest_data) == File(manifest_data)

\* the stats write_embeddings returns
stats_of(chunks, chunk_meta, manifest_data) ==
    [passed |-> Len(chunks), read |-> Len(chunk_meta), embedded |-> Len(manifest_data)]

\* the report write_report writes, given whether embeddings.parquet exists
report_of(stats, parquet_exists) ==
    [exists |-> TRUE, passed |-> stats.passed, read |-> stats.read,
     embedded |-> stats.embedded,
     parquet_line |-> IF parquet_exists THEN "path" ELSE "skipped"]

\* ------------------------------------------------------------------ state

NoStats == [passed |-> 0, read |-> 0, embedded |-> 0]

IdleRun ==
    [pc |-> "idle", chunks |-> <<>>, allow_empty |-> FALSE, chunk_meta |-> <<>>,
     texts |-> <<>>, response |-> "none", requests |-> 0, embeddings |-> <<>>,
     manifest_data |-> <<>>, pyarrow |-> "unknown", stats |-> NoStats,
     error |-> "none", message |-> <<>>, suppressed |-> FALSE]

NoSnapshot == [parquet |-> NoFile, hint |-> FALSE, manifest |-> NoFile, report |-> NoReport]

Init ==
    /\ dirs = {}
    /\ parquet_path = NoFile
    /\ hint_file = FALSE
    /\ manifest_path = NoFile
    /\ report_path = NoReport
    /\ run = [p \in Procs |-> IdleRun]
    /\ before = [p \in Procs |-> NoSnapshot]
    /\ overlapped = FALSE

Active(p) == run[p].pc \notin {"idle", "done", "failed"}

files == <<parquet_path, hint_file, manifest_path, report_path>>

\* ---------------------------------------------------------------- actions

\* main: parse_args, chunk_paths, the embedder's allow_empty
StartRun(p) ==
    /\ run[p].pc = "idle"
    /\ \E chunks \in ChunkLists, allow \in BOOLEAN :
         run' = [run EXCEPT ![p] = [IdleRun EXCEPT !.pc = "ensure_dirs",
                                                   !.chunks = chunks,
                                                   !.allow_empty = allow]]
    /\ before' = [before EXCEPT ![p] = Artifacts]
    /\ overlapped' = (overlapped \/ \E q \in Procs \ {p} : Active(q))
    /\ UNCHANGED <<dirs, files>>

\* a plausible slip: the layout step also clears the old columnar file
EnsureDirsClearing(p) ==
    /\ run[p].pc = "ensure_dirs"
    /\ dirs' = dirs \cup {"gewebe"}
    /\ parquet_path' = NoFile
    /\ run' = [run EXCEPT ![p].pc = "read"]
    /\ UNCHANGED <<hint_file, manifest_path, report_path, before, overlapped>>

\* ensure_dirs
EnsureDirs(p) ==
    /\ run[p].pc = "ensure_dirs"
    /\ dirs' = dirs \cup {"gewebe"}
    /\ run' = [run EXCEPT ![p].pc = "read"]
    /\ UNCHANGED <<files, before, overlapped>>

\* write_embeddings step 1
ReadChunks(p) ==
    /\ run[p].pc = "read"
    /\ LET meta == read_chunks(run[p].chunks)
       IN  run' = [run EXCEPT ![p].pc = "embed",
                              ![p].chunk_meta = meta,
                              ![p].texts = texts_of(meta)]
    /\ UNCHANGED <<dirs, files, before, overlapped>>

\* the state of the run after embedder.embed(texts) gave r
AfterEmbed(p, kind, r) ==
    IF r.raised = "none"
    THEN [run EXCEPT ![p].pc = "merge", ![p].response = kind,
                     ![p].requests = @ + r.requests, ![p].embeddings = r.value]
    ELSE [run EXCEPT ![p].pc = "failed", ![p].response = kind,
                     ![p].requests = @ + r.requests, ![p].error = r.raised]

\* what the run remembers of the provider's answer
ResponseKind(resp, n) ==
    IF resp.kind # "json" THEN resp.kind
    ELSE IF resp.body.type # "object" THEN "not_object"
    ELSE IF resp.body.embeddings.tag # "list" THEN "embeddings_" \o resp.body.embeddings.tag
    ELSE IF Len(resp.body.embeddings.items) # n THEN "count_mismatch"
    ELSE "ok"

\* write_embeddings step 2 with the OllamaEmbedder main() constructs
Embed(p) ==
    /\ run[p].pc = "embed"
    /\ \E resp \in Responses(Len(run[p].texts)) :
         LET r == embed(run[p].texts, run[p].allow_empty, resp)
             kind == IF r.requests = 0 THEN "none"
                     ELSE ResponseKind(resp, Len(run[p].texts))
         IN  run' = AfterEmbed(p, kind, r)
    /\ UNCHANGED <<dirs, files, before, overlapped>>

\* write_embeddings step 2 with an arbitrary embedder passed in
EmbedWith(p) ==
    /\ run[p].pc = "embed"
    /\ \E l \in VectorLists(MaxChunks + 1) :
         run' = AfterEmbed(p, "none", Returned(l, 0))
    /\ UNCHANGED <<dirs, files, before, overlapped>>

\* write_embeddings step 3
Merge(p) ==
    /\ run[p].pc = "merge"
    /\ LET m == merge(run[p].chunk_meta, run[p].embeddings)
       IN  run' = IF m.raised = "none"
                  THEN [run EXCEPT ![p].pc = "import", ![p].manifest_data = m.manifest_data]
                  ELSE [run EXCEPT ![p].pc = "failed", ![p].error = "integrity",
                                   ![p].message = m.message]
    /\ UNCHANGED <<dirs, files, before, overlapped>>

\* write_embeddings step 4: import pyarrow succeeds or raises ImportError
ImportPyarrow(p) ==
    /\ run[p].pc = "import"
    /\ \E present \in BOOLEAN :
         run' = [run EXCEPT ![p].pc = IF present THEN "write_table" ELSE "write_hint",
                            ![p].pyarrow = IF present THEN "present" ELSE "missing"]
    /\ UNCHANGED <<dirs, files, before, overlapped>>

\* pq.write_table(table, parquet_path)
WriteTable(p) ==
    /\ run[p].pc = "write_table"
    /\ parquet_path' = File(run[p].manifest_data)
    /\ run' = [run EXCEPT ![p].pc = "check_hint"]
    /\ UNCHANGED <<dirs, hint_file, manifest_path, report_path, before, overlapped>>

\* if hint_file.exists()
CheckHint(p) ==
    /\ run[p].pc = "check_hint"
    /\ run' = [run EXCEPT ![p].pc = IF hint_file THEN "unlink_hint" ELSE "manifest"]
    /\ UNCHANGED <<dirs, files, before, overlapped>>

\* hint_file.unlink(): FileNotFoundError when another run removed it meanwhile
UnlinkHint(p) ==
    /\ run[p].pc = "unlink_hint"
    /\ hint_file' = FALSE
    /\ run' = IF hint_file
              THEN [run EXCEPT ![p].pc = "manifest"]
              ELSE [run EXCEPT ![p].pc = "failed", ![p].error = "FileNotFoundError"]
    /\ UNCHANGED <<dirs, parquet_path, manifest_path, report_path, before, overlapped>>

\* except ImportError: write the hint file
WriteHint(p) ==
    /\ run[p].pc = "write_hint"
    /\ hint_file' = TRUE
    /\ run' = [run EXCEPT ![p].pc = "check_parquet"]
    /\ UNCHANGED <<dirs, parquet_path, manifest_path, report_path, before, overlapped>>

\* if parquet_path.exists()
CheckParquet(p) ==
    /\ run[p].pc = "check_parquet"
    /\ run' = [run EXCEPT ![p].pc = IF parquet_path.exists THEN "unlink_parquet" ELSE "manifest"]
    /\ UNCHANGED <<dirs, files, before, overlapped>>

\* with contextlib.suppress(Exception): parquet_path.unlink()
UnlinkParquet(p) ==
    /\ run[p].pc = "unlink_parquet"
    /\ \E unlinked \in BOOLEAN :
         /\ parquet_path' = IF unlinked THEN NoFile ELSE parquet_path
         /\ run' = [run EXCEPT ![p].pc = "manifest",
                               ![p].suppressed = parquet_path.exists /\ ~unlinked]
    /\ UNCHANGED <<dirs, hint_file, manifest_path, report_path, before, overlapped>>

\* write_embeddings step 5 and its return value
WriteManifest(p) ==
    /\ run[p].pc = "manifest"
    /\ manifest_path' = written_manifest(manifest_path, run[p].manifest_data)
    /\ run' = [run EXCEPT ![p].pc = "report",
                          ![p].stats = stats_of(run[p].chunks, run[p].chunk_meta,
                                                run[p].manifest_data)]
    /\ UNCHANGED <<dirs, parquet_path, hint_file, report_path, before, overlapped>>

\* write_report, then main's final message
WriteReport(p) ==
    /\ run[p].pc = "report"
    /\ dirs' = dirs \cup {"reports"}
    /\ report_path' = report_of(run[p].stats, parquet_path.exists)
    /\ run' = [run EXCEPT ![p].pc = "done"]
    /\ UNCHANGED <<parquet_path, hint_file, manifest_path, before, overlapped>>

\* the process ends (exit status 0 or an uncaught exception); a later run may start
Exit(p) ==
    /\ run[p].pc \in {"done", "failed"}
    /\ run' = [run EXCEPT ![p] = IdleRun]
    /\ before' = [before EXCEPT ![p] = NoSnapshot]
    /\ UNCHANGED <<dirs, files, overlapped>>

\* the steps of write_embeddings after the embedder returned, and write_report
WriteSteps(p) ==
    \/ Merge(p)
    \/ ImportPyarrow(p)
    \/ WriteTable(p)
    \/ CheckHint(p)
    \/ UnlinkHint(p)
    \/ WriteHint(p)
    \/ CheckParquet(p)
    \/ UnlinkParquet(p)
    \/ WriteManifest(p)
    \/ WriteReport(p)

\* main of one of two concurrent runs, each with its own chunk set
StartConcurrentRun(p) ==
    /\ StartRun(p)
    /\ run'[p].chunks \in ConcChunkLists(p)

\* one writer per namespace: runs of main() one after the other
Next ==
    \E p \in {1} :
        \/ StartRun(p)
        \/ EnsureDirs(p)
        \/ ReadChunks(p)
        \/ Embed(p)
        \/ WriteSteps(p)
        \/ Exit(p)

Spec == Init /\ [][Next]_vars

\* write_embeddings called with any embedder, one call after the other
NextWith ==
    \E p \in {1} :
        \/ StartRun(p)
        \/ EnsureDirs(p)
        \/ ReadChunks(p)
        \/ EmbedWith(p)
        \/ WriteSteps(p)
        \/ Exit(p)

SpecWith == Init /\ [][NextWith]_vars

\* two runs of main() against one namespace, no lock
NextConc ==
    \E p \in Procs :
        \/ StartConcurrentRun(p)
        \/ EnsureDirs(p)
        \/ ReadChunks(p)
        \/ Embed(p)
        \/ WriteSteps(p)

SpecConc == Init /\ [][NextConc]_vars

\* ----------------------------------------------------------------- claims

Done(p) == run[p].pc = "done"
Failed(p) == run[p].pc = "failed"

\* the run has left embedder.embed, by return or by exception
PastEmbed(p) == run[p].pc \notin {"idle", "ensure_dirs", "read", "embed"}

\* the run has left step 3 of write_embeddings
PastMerge(p) == PastEmbed(p) /\ run[p].pc # "merge"

\* embedder.embed returned to write_embeddings
EmbedReturned(p) == PastEmbed(p) /\ run[p].error \notin {"RuntimeError", "AttributeError"}

\* the provider was asked and the call did not yield one vector per text
ProviderFailed(p) == run[p].response \notin {"none", "ok"}

\* the paths of a chunk list that can be read, in their order
Readable(chunks) == SelectSeq(chunks, LAMBDA q : read_text(q).ok)

EmptyVectors(n) == [i \in 1..n |-> <<>>]

\* the columnar file, where there is one, holds what the manifest holds
Agrees(a) == a.parquet.exists => a.parquet.data = a.manifest.data

\* C1: embed never returns a list of another length than texts; when the
\* provider call fails it raises with allow_empty off and returns len(texts)
\* empty vectors with allow_empty on; when it succeeds it returns one vector
\* per text.
C1_EmbedContract ==
    \A p \in Procs :
        PastEmbed(p) =>
            /\ EmbedReturned(p) => Len(run[p].embeddings) = Len(run[p].texts)
            /\ (ProviderFailed(p) /\ ~run[p].allow_empty) => ~EmbedReturned(p)
            /\ (ProviderFailed(p) /\ run[p].allow_empty) =>
                   /\ EmbedReturned(p)
                   /\ run[p].embeddings = EmptyVectors(Len(run[p].texts))
            /\ run[p].response = "ok" =>
                   /\ EmbedReturned(p)
                   /\ \A i \in 1..Len(run[p].embeddings) : run[p].embeddings[i] # <<>>

\* the part of C1 the code keeps: a returned list has the length of texts,
\* and every failure the except clause names is handled as C1 says
EmbedLengthKept ==
    \A p \in Procs :
        PastEmbed(p) =>
            /\ EmbedReturned(p) => Len(run[p].embeddings) = Len(run[p].texts)
            /\ (ProviderFailed(p) /\ run[p].response # "not_object" /\ run[p].allow_empty) =>
                   EmbedReturned(p) /\ run[p].embeddings = EmptyVectors(Len(run[p].texts))

\* C2: embed of zero texts returns the empty list and sends no request, with
\* allow_empty on or off; a run that read no chunk never fails, always has
\* its next step open to it until it is done, and never contacts the provider.
C2_EmptyInputNoRequest ==
    \A p \in Procs :
        (PastEmbed(p) /\ run[p].texts = <<>>) =>
            /\ run[p].requests = 0
            /\ run[p].embeddings = <<>>
            /\ ~Failed(p)
            /\ ~Done(p) => ENABLED WriteSteps(p)
            /\ Done(p) => (manifest_path = File(<<>>) /\ run[p].stats.embedded = 0)

C2_Witness ==
    \E p \in Procs :
        /\ Done(p)
        /\ run[p].chunks # <<>>
        /\ run[p].texts = <<>>
        /\ ~run[p].allow_empty
        /\ run[p].requests = 0

\* C3: when chunk_meta and the embeddings handed back differ in length,
\* write_embeddings fails with the data-integrity error naming both counts
\* and the columnar file, the hint, the manifest and the report are as they
\* were before the run.
C3_MismatchWritesNothing ==
    \A p \in Procs :
        (PastMerge(p) /\ Len(run[p].chunk_meta) # Len(run[p].embeddings)) =>
            /\ Failed(p)
            /\ run[p].error = "integrity"
            /\ run[p].message = <<"Chunks", Len(run[p].chunk_meta),
                                  "Embeddings", Len(run[p].embeddings)>>
            /\ Artifacts = before[p]

C3_Witness ==
    \E p \in Procs :
        /\ Failed(p)
        /\ run[p].error = "integrity"
        /\ Len(run[p].chunk_meta) = 2
        /\ Len(run[p].embeddings) = 1
        /\ before[p].manifest.exists
        /\ before[p].parquet.exists
        /\ Artifacts = before[p]

\* C4: when a run completes with pyarrow unavailable, no columnar file
\* exists, the hint file and the manifest exist, and the report carries the
\* skipped line.
C4_EngineUnavailableRun ==
    \A p \in Procs :
        (Done(p) /\ run[p].pyarrow = "missing") =>
            /\ ~parquet_path.exists
            /\ hint_file
            /\ manifest_path.exists
            /\ report_path.exists
            /\ report_path.parquet_line = "skipped"

\* what the code keeps of C4: the columnar file is gone unless a stale one
\* could not be unlinked, and the report line follows the file's existence
EngineUnavailableKept ==
    \A p \in Procs :
        (Done(p) /\ run[p].pyarrow = "missing") =>
            /\ parquet_path.exists => parquet_path = before[p].parquet
            /\ hint_file
            /\ manifest_path.exists
            /\ report_path.exists
            /\ report_path.parquet_line = "skipped" <=> ~parquet_path.exists

\* C5: after every completed run exactly one of the columnar file and the
\* hint file exists, the columnar file iff pyarrow was available on that run.
C5_ExactlyOneOfColumnarAndHint ==
    \A p \in Procs :
        Done(p) =>
            /\ parquet_path.exists <=> run[p].pyarrow = "present"
            /\ hint_file <=> run[p].pyarrow = "missing"

\* C6: an unreadable path is left out and does not abort the run: a run
\* fails only after a provider request, and a completed run has
\* passed = number of paths, read = embedded = number of readable paths and
\* a manifest of one record per readable path, in input order.
C6_UnreadableSkipped ==
    \A p \in Procs :
        /\ Failed(p) => (run[p].requests = 1 /\ ProviderFailed(p))
        /\ Done(p) =>
              LET ok == Readable(run[p].chunks)
              IN  /\ run[p].stats.passed = Len(run[p].chunks)
                  /\ run[p].stats.read = Len(ok)
                  /\ run[p].stats.embedded = Len(ok)
                  /\ manifest_path.exists
                  /\ Len(manifest_path.data) = Len(ok)
                  /\ \A i \in 1..Len(ok) : manifest_path.data[i].source = ok[i]

C6_Witness ==
    \E p \in Procs :
        /\ Done(p)
        /\ run[p].chunks = <<"gone/c.md", "docs/b.md">>
        /\ run[p].stats = [passed |-> 2, read |-> 1, embedded |-> 1]
        /\ Len(manifest_path.data) = 1

\* C7: the manifest a completed run leaves holds exactly that run's records,
\* in input order, the i-th with the i-th read chunk's chunk_id, source and
\* text and the i-th vector the embedder returned; nothing of an earlier
\* manifest remains.
C7_ManifestOfThisRunOnly ==
    \A p \in Procs :
        Done(p) =>
            LET ok == Readable(run[p].chunks)
            IN  /\ manifest_path.exists
                /\ Len(manifest_path.data) = Len(ok)
                /\ Len(run[p].embeddings) = Len(ok)
                /\ \A i \in 1..Len(ok) :
                      /\ manifest_path.data[i].chunk_id = stem(ok[i])
                      /\ manifest_path.data[i].source = ok[i]
                      /\ manifest_path.data[i].text = read_text(ok[i]).content
                      /\ manifest_path.data[i].embedding = run[p].embeddings[i]

C7_Witness ==
    \E p \in Procs :
        /\ Done(p)
        /\ before[p].manifest.exists
        /\ Len(before[p].manifest.data) = 2
        /\ Len(manifest_path.data) = 1
        /\ manifest_path.data[1].source = "docs/b.md"
        /\ before[p].manifest.data[1].source = "notes/a.md"

\* the stage of main() a run is in
Stage(pc) ==
    CASE pc = "idle" -> 0
      [] pc = "ensure_dirs" -> 1
      [] pc = "read" -> 2
      [] pc = "embed" -> 3
      [] pc \in {"report"} -> 5
      [] pc \in {"done", "failed"} -> 6
      [] OTHER -> 4

\* the steps of a run come in the order layout, read, embed, write, report,
\* each kind of effect in its own stage, and at most one provider request
StepsInOrder(p) ==
    /\ run'[p].pc # "idle" => Stage(run'[p].pc) >= Stage(run[p].pc)
    /\ (run'[p].pc # run[p].pc /\ run'[p].pc \notin {"idle", "failed"}) =>
           Stage(run'[p].pc) <= Stage(run[p].pc) + 1
    /\ run'[p].requests > run[p].requests => Stage(run[p].pc) = 3
    /\ run'[p].chunk_meta # run[p].chunk_meta =>
           (Stage(run[p].pc) = 2 \/ run'[p].pc \in {"idle", "ensure_dirs"})
    /\ <<parquet_path, hint_file, manifest_path>>' # <<parquet_path, hint_file, manifest_path>> =>
           (Stage(run[p].pc) = 4 /\ "gewebe" \in dirs)
    /\ report_path' # report_path => (run[p].pc = "report" /\ manifest_path.exists)
    /\ run'[p].requests <= 1

\* C8 as stated: the fixed order, and nothing in the artifacts directory is
\* created, modified or deleted once the run has written the manifest.
C8_ManifestIsLastWrite ==
    [][\A p \in {1} :
          /\ StepsInOrder(p)
          /\ run[p].pc \in {"report", "done"} =>
                 UNCHANGED <<dirs, parquet_path, hint_file, manifest_path, report_path>>]_vars

\* C8 amended: the fixed order with at most one provider request; once the
\* run has written the manifest it changes neither the columnar file, the
\* hint nor the manifest, and what it still writes is reports/index_report.md.
C8_ReportFollowsManifest ==
    [][\A p \in {1} :
          /\ StepsInOrder(p)
          /\ run[p].pc \in {"report", "done"} =>
                 UNCHANGED <<parquet_path, hint_file, manifest_path>>
          /\ run[p].pc = "report" => (report_path'.exists /\ "reports" \in dirs')]_vars

C8_Witness ==
    \E p \in Procs :
        /\ Done(p)
        /\ run[p].requests = 1
        /\ report_path.exists
        /\ report_path # before[p].report
        /\ before[p].report.exists

\* C9: a run whose embedding step fails leaves the columnar file, the hint,
\* the manifest and the report as it found them, so a columnar file that
\* agreed with the manifest still does.
C9_FailedEmbedChangesNothing ==
    \A p \in Procs :
        (Failed(p) /\ run[p].error \in {"RuntimeError", "AttributeError"}) =>
            /\ Artifacts = before[p]
            /\ Agrees(before[p]) => Agrees(Artifacts)

C9_Witness ==
    \E p \in Procs :
        /\ Failed(p)
        /\ run[p].error = "RuntimeError"
        /\ ~run[p].allow_empty
        /\ run[p].response = "count_mismatch"
        /\ before[p].parquet.exists
        /\ before[p].manifest.exists
        /\ before[p].report.exists

\* both runs completed, the columnar file holds the records of one and the
\* manifest the records of the other
Corrupted ==
    \E p, q \in Procs :
        /\ p # q
        /\ Done(p) /\ Done(q)
        /\ run[p].manifest_data # run[q].manifest_data
        /\ parquet_path = File(run[p].manifest_data)
        /\ manifest_path = File(run[q].manifest_data)

\* C10: two unlocked runs can end with the columnar file of one and the
\* manifest of the other; with one writer at a time that state is unreachable.
C10_OnlyOverlapCorrupts == Corrupted => overlapped

\* what the code keeps of C10: without overlap the pair is corrupted only
\* when a stale columnar file could not be unlinked
OverlapOrStaleFileCorrupts ==
    Corrupted => (overlapped \/ \E p \in Procs : run[p].suppressed)

C10_Witness ==
    /\ Corrupted
    /\ overlapped
    /\ \A p \in Procs : run[p].pyarrow = "present" /\ ~run[p].suppressed

====
